---------------------------- MODULE Spec2Model ----------------------------
(***************************************************************************)
(* A model of ffpuppet/helpers.py: wait_on_files (time-bounded polling of  *)
(* a process tree), SanitizerConfig (option store, tokenizer, serializer), *)
(* configure_sanitizers and prepare_environment.                           *)
(***************************************************************************)
EXTENDS Integers, Sequences, FiniteSets, TLC

VARIABLES
    \* ---- wait_on_files: arguments
    timeout, poll_rate, recursive, wait_in,
    \* ---- wait_on_files: locals and position
    pc, wait_end, wait_files, children, idx, open_files, result,
    \* ---- the clock (time.time()) as last observed by the call
    clock,
    \* ---- the operating system: process table and open files
    st, held,
    \* ---- history of the call: a sleep was made; what the first poll found
    \* ("none" before it, then "clean" or "hit"); the handle creation or the
    \* loop test found the process gone or inaccessible; the pid named a
    \* process when the call began; the targets whose open files the poll
    \* under way could read
    slept, first_poll, head_lost, pid_exists, readers,
    \* ---- a SanitizerConfig in use: the environment load_options reads, the
    \* _options dict, where the object is in its life, the error load_options
    \* raised, the number of add calls made, the result of reading the options
    \* string back
    opt_env, opts, opt_pc, opt_err, nadds, reread,
    \* ---- history of the SanitizerConfig: the tokens load_options split, the
    \* (name, value) of the last effective operation on each name, whether
    \* load_options read a string, whether an add without overwrite met a
    \* name already there
    tokens, eff, loaded, skipped,
    \* ---- prepare_environment: os.environ, the arguments, the symbolizer
    \* found beside the target ("found", "missing") or a Windows build
    \* ("windows"), the env dict, the position, the error raised
    os_environ, env_mod, sanitizer_log, symbolizer, env, env_pc, env_err,
    \* ---- history of prepare_environment: env before env_mod is applied,
    \* os.environ when the call began
    pre_env, environ0

waitVars == <<timeout, poll_rate, recursive, wait_in, pc, wait_end, wait_files,
              children, idx, open_files, result, clock, st, held, slept, first_poll,
              head_lost, pid_exists, readers>>

optVars == <<opt_env, opts, opt_pc, opt_err, nadds, reread, tokens, eff, loaded,
             skipped>>

envVars == <<os_environ, env_mod, sanitizer_log, symbolizer, env, env_pc, env_err,
             pre_env, environ0>>

cfgVars == <<optVars, envVars>>

vars == <<waitVars, optVars, envVars>>

(***************************************************************************)
(* Bounds of the model.                                                    *)
(***************************************************************************)
MaxTimeout == 2
MaxAdds == 2
MaxRaw == 4

(***************************************************************************)
(* The process tree: the polled process p, its child c1, its grandchild c2.*)
(***************************************************************************)
Top == "p"
Kids == {"c1", "c2"}
Procs == {Top} \cup Kids
Parent(q) == IF q = "c2" THEN "c1" ELSE Top

\* psutil: a process is running and readable, running but AccessDenied, or gone
\* (NoSuchProcess).
ProcStates == {"run", "denied", "gone"}
\* the grandchild is only ever running or gone in the model
StatesOf(q) == IF q = "c2" THEN {"run", "gone"} ELSE ProcStates

(***************************************************************************)
(* The file system: "a" and "b" are regular files, "la" is a symbolic link *)
(* to "a", "nx" does not exist.                                            *)
(***************************************************************************)
RawPaths == {"a", "b", "la", "nx"}
Exists(x) == x \in {"a", "b", "la"}
RealPath(x) == IF x = "la" THEN "a" ELSE x
\* os.path.normcase(os.path.realpath(x)); normcase changes nothing on POSIX
Norm(x) == RealPath(x)
\* line 340: the watch list, existing paths only, normalized
NormalizeWaitFiles(files) == {Norm(x) : x \in {y \in files : Exists(y)}}
\* the files a process may hold open in the model
Holdable(q) == IF q = Top THEN {"a", "b"} ELSE {"a"}

\* psutil.Process.children(recursive=True): every live transitive descendant
Descendants(s) ==
    {c \in Kids : s[c] # "gone" /\ (Parent(c) # Top => s[Parent(c)] # "gone")}
\* the descendants as the list wait_on_files iterates
AsList(S) ==
    (IF "c1" \in S THEN <<"c1">> ELSE <<>>) \o (IF "c2" \in S THEN <<"c2">> ELSE <<>>)
\* faulty variant: the descendants are listed whatever `recursive` says
ChildrenOfAlways(s, rec) ==
    IF s[Top] = "run" THEN AsList(Descendants(s)) ELSE <<>>
\* lines 345-348: the children of this poll; an enumeration error gives none
ChildrenOf(s, rec) ==
    IF rec /\ s[Top] = "run" THEN AsList(Descendants(s)) ELSE <<>>
\* lines 351-354: one target's open files; an enumeration error gives none
OpenFilesOf(s, h, q) == IF s[q] = "run" THEN h[q] ELSE {}
\* faulty variant: any open file counts as a watched one
MatchesAnyFile(open, wf) == {Norm(y) : y \in open}
\* lines 355-357: the watched files among the normalized open files
Matches(open, wf) == {x \in {Norm(y) : y \in open} : x \in wf}
\* faulty variant: the deadline test gives up one tick early
DeadlineReachedEarly(we, t) == we <= t + 1
\* line 359: the deadline test
DeadlineReached(we, t) == we <= t
\* faulty variant: the sleep lasts two ticks longer than poll_rate
AfterSleepLong(t, pr) == t + pr + 2
\* line 362: the clock after time.sleep(poll_rate)
AfterSleep(t, pr) == t + pr
\* lines 335-337: the argument assertions
ArgsValid(pr, to) == pr >= 0 /\ to >= 0 /\ pr <= to

(***************************************************************************)
(* psutil: what a call on process q raises in process-table state s.       *)
(***************************************************************************)
ProbeExc(s, q) ==
    CASE s[q] = "gone" -> "NoSuchProcess"
      [] s[q] = "denied" -> "AccessDenied"
      [] OTHER -> "none"
\* line 347 and line 353: the inner handlers
CaughtInner(exc) == exc \in {"AccessDenied", "NoSuchProcess"}
\* faulty variant: the outer handler lets AccessDenied through
CaughtOuterNoSuchProcessOnly(exc) == exc \in {"NoSuchProcess"}
\* line 363: the handler around the whole loop
CaughtOuter(exc) == exc \in {"AccessDenied", "NoSuchProcess"}

(***************************************************************************)
(* wait_on_files, one action per step of the code.                         *)
(***************************************************************************)
Return(v) == /\ result' = v
             /\ pc' = "done"

\* lines 363-365: an exception that reached the outer handler
Raise(exc) == IF CaughtOuter(exc) THEN Return("True") ELSE Return(exc)

\* lines 335-340
Start ==
    /\ pc = "start"
    /\ IF ~ArgsValid(poll_rate, timeout)
       THEN /\ Return("AssertionError")
            /\ UNCHANGED <<wait_end, wait_files>>
       ELSE /\ wait_end' = clock + timeout
            /\ wait_files' = NormalizeWaitFiles(wait_in)
            /\ pc' = "proc"
            /\ UNCHANGED result
    /\ UNCHANGED <<timeout, poll_rate, recursive, wait_in, children, idx, open_files,
                   clock, st, held, slept, first_poll, head_lost, pid_exists, readers, cfgVars>>

\* line 342: psutil.Process(pid) raises NoSuchProcess for a missing pid, and on
\* an inaccessible process either succeeds or raises AccessDenied
MakeProc ==
    /\ pc = "proc"
    /\ \E denies \in BOOLEAN :
          /\ denies => st[Top] = "denied"
          /\ LET exc == IF st[Top] = "gone" THEN "NoSuchProcess"
                        ELSE IF denies THEN "AccessDenied" ELSE "none"
             IN IF exc # "none"
                THEN Raise(exc) /\ head_lost' = TRUE
                ELSE pc' = "loop" /\ UNCHANGED <<result, head_lost>>
    /\ UNCHANGED <<timeout, poll_rate, recursive, wait_in, wait_end, wait_files, children,
                   idx, open_files, clock, st, held, slept, first_poll, pid_exists, readers, cfgVars>>

\* line 343: while proc.is_running() and wait_files; is_running() is False for a
\* process that is gone, and on an inaccessible one is True or raises AccessDenied
LoopHead ==
    /\ pc = "loop"
    /\ \E denies \in BOOLEAN :
          /\ denies => st[Top] = "denied"
          /\ IF denies
             THEN Raise("AccessDenied") /\ head_lost' = TRUE
             ELSE IF st[Top] = "gone"
             THEN Return("True") /\ head_lost' = TRUE
             ELSE IF wait_files = {}
             THEN Return("True") /\ UNCHANGED head_lost
             ELSE pc' = "children" /\ UNCHANGED <<result, head_lost>>
    /\ UNCHANGED <<timeout, poll_rate, recursive, wait_in, wait_end, wait_files, children,
                   idx, open_files, clock, st, held, slept, first_poll, pid_exists, readers, cfgVars>>

\* lines 344-349
ListChildren ==
    /\ pc = "children"
    /\ LET exc == IF recursive THEN ProbeExc(st, Top) ELSE "none"
       IN IF exc # "none" /\ ~CaughtInner(exc)
          THEN /\ Raise(exc)
               /\ UNCHANGED <<children, open_files, idx, readers>>
          ELSE /\ children' = ChildrenOf(st, recursive)
               /\ open_files' = {}
               /\ readers' = {}
               /\ idx' = 1
               /\ pc' = "scan"
               /\ UNCHANGED result
    /\ UNCHANGED <<timeout, poll_rate, recursive, wait_in, wait_end, wait_files,
                   clock, st, held, slept, first_poll, head_lost, pid_exists, cfgVars>>

\* lines 350-354: one iteration of "for target in [proc] + children"
ScanTarget ==
    /\ pc = "scan"
    /\ LET targets == <<Top>> \o children
           exc == ProbeExc(st, targets[idx])
       IN IF exc # "none" /\ ~CaughtInner(exc)
          THEN /\ Raise(exc)
               /\ UNCHANGED <<open_files, idx, readers>>
          ELSE /\ open_files' = open_files \cup OpenFilesOf(st, held, targets[idx])
               /\ readers' = IF exc = "none" THEN readers \cup {targets[idx]} ELSE readers
               /\ UNCHANGED result
               /\ IF idx < Len(targets)
                  THEN idx' = idx + 1 /\ pc' = "scan"
                  ELSE idx' = idx /\ pc' = "match"
    /\ UNCHANGED <<timeout, poll_rate, recursive, wait_in, wait_end, wait_files, children,
                   clock, st, held, slept, first_poll, head_lost, pid_exists, cfgVars>>

\* lines 355-358
Match ==
    /\ pc = "match"
    /\ first_poll' = IF first_poll # "none" THEN first_poll
                     ELSE IF \E f \in open_files : RealPath(f) \in wait_files
                     THEN "hit" ELSE "clean"
    /\ IF Matches(open_files, wait_files) = {}
       THEN Return("True")
       ELSE pc' = "deadline" /\ UNCHANGED result
    /\ UNCHANGED <<timeout, poll_rate, recursive, wait_in, wait_end, wait_files, children,
                   idx, open_files, clock, st, held, slept, head_lost, pid_exists, readers, cfgVars>>

\* lines 359-361: time.time() reads t
Deadline(t) ==
    /\ pc = "deadline"
    /\ clock' = t
    /\ IF DeadlineReached(wait_end, t)
       THEN Return("False")
       ELSE pc' = "sleep" /\ UNCHANGED result
    /\ UNCHANGED <<timeout, poll_rate, recursive, wait_in, wait_end, wait_files, children,
                   idx, open_files, st, held, slept, first_poll, head_lost, pid_exists, readers, cfgVars>>

\* the poll took less than one tick of the clock
DeadlineSameTick == Deadline(clock)
\* the clock ticked once since it was last read
DeadlineNextTick == Deadline(clock + 1)

\* line 362
Sleep ==
    /\ pc = "sleep"
    /\ clock' = AfterSleep(clock, poll_rate)
    /\ slept' = TRUE
    /\ pc' = "loop"
    /\ UNCHANGED <<timeout, poll_rate, recursive, wait_in, wait_end, wait_files, children,
                   idx, open_files, result, st, held, first_poll, head_lost, pid_exists, readers, cfgVars>>

WaitStep == \/ Start
            \/ MakeProc
            \/ LoopHead
            \/ ListChildren
            \/ ScanTarget
            \/ Match
            \/ DeadlineSameTick
            \/ DeadlineNextTick
            \/ Sleep

(***************************************************************************)
(* The operating system, running beside the call.                          *)
(***************************************************************************)
callFrame == <<timeout, poll_rate, recursive, wait_in, pc, wait_end, wait_files,
               children, idx, open_files, result, clock, slept, first_poll, head_lost,
               pid_exists, readers, cfgVars>>

ProcExit(q) ==
    /\ pc # "done"
    /\ st[q] # "gone"
    /\ st' = [st EXCEPT ![q] = "gone"]
    /\ held' = [held EXCEPT ![q] = {}]
    /\ UNCHANGED callFrame

AccessDeny(q) ==
    /\ pc # "done"
    /\ st[q] = "run"
    /\ "denied" \in StatesOf(q)
    /\ st' = [st EXCEPT ![q] = "denied"]
    /\ UNCHANGED <<callFrame, held>>

AccessAllow(q) ==
    /\ pc # "done"
    /\ st[q] = "denied"
    /\ st' = [st EXCEPT ![q] = "run"]
    /\ UNCHANGED <<callFrame, held>>

Spawn(q) ==
    /\ pc # "done"
    /\ q \in Kids
    /\ st[q] = "gone"
    /\ st[Parent(q)] # "gone"
    /\ st' = [st EXCEPT ![q] = "run"]
    /\ UNCHANGED <<callFrame, held>>

FileOpen(q, f) ==
    /\ pc # "done"
    /\ st[q] # "gone"
    /\ f \in Holdable(q) \ held[q]
    /\ held' = [held EXCEPT ![q] = @ \cup {f}]
    /\ UNCHANGED <<callFrame, st>>

FileClose(q, f) ==
    /\ pc # "done"
    /\ f \in held[q]
    /\ held' = [held EXCEPT ![q] = @ \ {f}]
    /\ UNCHANGED <<callFrame, st>>

OsStep == \E q \in Procs :
             \/ ProcExit(q)
             \/ AccessDeny(q)
             \/ AccessAllow(q)
             \/ Spawn(q)
             \/ \E f \in RawPaths : FileOpen(q, f)
             \/ \E f \in RawPaths : FileClose(q, f)

(***************************************************************************)
(* Strings are sequences of one-character strings, so that the tokenizer   *)
(* and the serializer work on characters as the code does.                 *)
(***************************************************************************)
Suppressions == <<"s", "u", "p", "p", "r", "e", "s", "s", "i", "o", "n", "s">>
LogPath == <<"l", "o", "g", "_", "p", "a", "t", "h">>
AbortOnError == <<"a", "b", "o", "r", "t", "_", "o", "n", "_", "e", "r", "r", "o", "r">>
AllocatorMayReturnNull == <<"a", "l", "l", "o", "c", "a", "t", "o", "r", "_", "m", "a", "y", "_", "r", "e", "t", "u", "r", "n", "_", "n", "u", "l", "l">>
CheckInitializationOrder == <<"c", "h", "e", "c", "k", "_", "i", "n", "i", "t", "i", "a", "l", "i", "z", "a", "t", "i", "o", "n", "_", "o", "r", "d", "e", "r">>
DetectLeaks == <<"d", "e", "t", "e", "c", "t", "_", "l", "e", "a", "k", "s">>
DisableCoredump == <<"d", "i", "s", "a", "b", "l", "e", "_", "c", "o", "r", "e", "d", "u", "m", "p">>
SleepBeforeDying == <<"s", "l", "e", "e", "p", "_", "b", "e", "f", "o", "r", "e", "_", "d", "y", "i", "n", "g">>
StrictInitOrder == <<"s", "t", "r", "i", "c", "t", "_", "i", "n", "i", "t", "_", "o", "r", "d", "e", "r">>
Symbolize == <<"s", "y", "m", "b", "o", "l", "i", "z", "e">>
MaxLeaks == <<"m", "a", "x", "_", "l", "e", "a", "k", "s">>
PrintSuppressions == <<"p", "r", "i", "n", "t", "_", "s", "u", "p", "p", "r", "e", "s", "s", "i", "o", "n", "s">>
PrintStacktrace == <<"p", "r", "i", "n", "t", "_", "s", "t", "a", "c", "k", "t", "r", "a", "c", "e">>
StrTrue == <<"t", "r", "u", "e">>
StrFalse == <<"f", "a", "l", "s", "e">>

RECURSIVE Join(_, _)
\* sep.join(items)
Join(items, sep) ==
    IF items = <<>> THEN <<>>
    ELSE IF Len(items) = 1 THEN items[1]
    ELSE items[1] \o sep \o Join(Tail(items), sep)

\* faulty variant: the look-ahead set without the backslash
PathCharsNoBackslash == {"|", "/"}
\* line 25: the lookahead set of re_delim, r":(?![\\|/])"
PathChars == {"\\", "|", "/"}
\* faulty variant: every ":" is a separator
ReDelimMatchEveryColon(s, i) == s[i] = ":"
\* line 25: re_delim matches at position i of s
ReDelimMatch(s, i) ==
    /\ s[i] = ":"
    /\ ~(i < Len(s) /\ s[i + 1] \in PathChars)

RECURSIVE ReSplitFrom(_, _, _, _)
ReSplitFrom(s, i, cur, acc) ==
    IF i > Len(s) THEN Append(acc, cur)
    ELSE IF ReDelimMatch(s, i) THEN ReSplitFrom(s, i + 1, <<>>, Append(acc, cur))
    ELSE ReSplitFrom(s, i + 1, Append(cur, s[i]), acc)
\* line 40: self.re_delim.split(env[key])
ReDelimSplit(s) == ReSplitFrom(s, 1, <<>>, <<>>)

RECURSIVE StrSplitFrom(_, _, _, _, _)
StrSplitFrom(s, c, i, cur, acc) ==
    IF i > Len(s) THEN Append(acc, cur)
    ELSE IF s[i] = c THEN StrSplitFrom(s, c, i + 1, <<>>, Append(acc, cur))
    ELSE StrSplitFrom(s, c, i + 1, Append(cur, s[i]), acc)
\* line 42: option.split("=")
StrSplit(s, c) == StrSplitFrom(s, c, 1, <<>>, <<>>)

(***************************************************************************)
(* SanitizerConfig._options: a dict, kept as the list of its (name, value) *)
(* items in insertion order.                                               *)
(***************************************************************************)
Keys(d) == {d[i][1] : i \in DOMAIN d}
HasKey(d, k) == k \in Keys(d)
Lookup(d, k) == d[CHOOSE i \in DOMAIN d : d[i][1] = k][2]
\* self._options[k] = v
DictSet(d, k, v) ==
    IF HasKey(d, k)
    THEN [i \in DOMAIN d |-> IF d[i][1] = k THEN <<k, v>> ELSE d[i]]
    ELSE Append(d, <<k, v>>)
\* the mapping a dict holds, without its order
Mapping(d) == {<<d[i][1], d[i][2]>> : i \in DOMAIN d}

\* faulty variant: add ignores `overwrite` and always stores
AddOptionAlways(d, key, value, overwrite) == DictSet(d, key, value)
\* lines 30-32: SanitizerConfig.add
AddOption(d, key, value, overwrite) ==
    IF ~HasKey(d, key) \/ overwrite THEN DictSet(d, key, value) ELSE d

\* lines 52-54: SanitizerConfig.options
Options(d) == Join([i \in DOMAIN d |-> Join(<<d[i][1], d[i][2]>>, <<"=">>)], <<":">>)

(***************************************************************************)
(* The files load_options looks at: the working directory is /w, and /f    *)
(* and /w/g are regular files.                                             *)
(***************************************************************************)
Cwd == <<"/", "w">>
DiskFiles == {<<"/", "f">>, <<"/", "w", "/", "g">>}
\* line 45: os.path.abspath(os.path.expanduser(v)) of a path without "~", "." or ".."
AbsPath(v) == IF v # <<>> /\ v[1] = "/" THEN v ELSE Cwd \o <<"/">> \o v
\* line 46
IsFile(v) == v \in DiskFiles

\* a load in progress: the error raised ("none" while there is none) and the dict
Ok(d) == [err |-> "none", opts |-> d]
Failed(e, d) == [err |-> e, opts |-> d]

\* lines 41-50: one option of the loop
LoadOption(d, option) ==
    LET parts == StrSplit(option, "=")
    IN IF Len(parts) # 2 THEN Ok(d)
       ELSE IF parts[1] = Suppressions
       THEN IF IsFile(AbsPath(parts[2]))
            THEN Ok(DictSet(d, parts[1], AbsPath(parts[2])))
            ELSE Failed("IOError", d)
       ELSE Ok(DictSet(d, parts[1], parts[2]))

RECURSIVE LoadTokens(_, _)
\* line 40: the loop over the tokens, stopped by the first error
LoadTokens(d, toks) ==
    IF toks = <<>> THEN Ok(d)
    ELSE LET r == LoadOption(d, Head(toks))
         IN IF r.err # "none" THEN r ELSE LoadTokens(r.opts, Tail(toks))

\* lines 34-50: SanitizerConfig.load_options(env, key) on a config holding d
LoadOptions(d, e, key) ==
    IF key \notin DOMAIN e THEN Ok(d)
    ELSE IF \E i \in DOMAIN e[key] : e[key][i] = " " THEN Failed("AssertionError", d)
    ELSE LoadTokens(d, ReDelimSplit(e[key]))

(***************************************************************************)
(* A SanitizerConfig in use: load_options once on a new object, add calls, *)
(* and the options string read back by a second, new object.               *)
(***************************************************************************)
OptKey == "ASAN_OPTIONS"
NoEnv == [x \in {} |-> <<>>]

\* the value load_options stores for a well-formed option: the text after "=",
\* made absolute for the suppressions file
LoadedValue(name, value) == IF name = Suppressions THEN AbsPath(value) ELSE value

RECURSIVE NoteLoads(_, _)
\* the most recent load of each name among the tokens, as (name, value) pairs
NoteLoads(e, toks) ==
    IF toks = <<>> THEN e
    ELSE LET parts == StrSplit(Head(toks), "=")
         IN IF Len(parts) # 2 THEN NoteLoads(e, Tail(toks))
            ELSE NoteLoads({p \in e : p[1] # parts[1]}
                             \cup {<<parts[1], LoadedValue(parts[1], parts[2])>>},
                           Tail(toks))

\* lines 34-50 on a new object
LoadStep ==
    /\ opt_pc = "new"
    /\ LET r == LoadOptions(opts, opt_env, OptKey)
       IN /\ opts' = r.opts
          /\ opt_err' = r.err
          /\ opt_pc' = IF r.err = "none" THEN "ready" ELSE "failed"
          /\ tokens' = IF OptKey \in DOMAIN opt_env /\ r.err # "AssertionError"
                       THEN ReDelimSplit(opt_env[OptKey]) ELSE <<>>
          /\ eff' = IF OptKey \in DOMAIN opt_env /\ r.err = "none"
                    THEN NoteLoads(eff, ReDelimSplit(opt_env[OptKey])) ELSE eff
          /\ loaded' = (OptKey \in DOMAIN opt_env)
    /\ UNCHANGED <<opt_env, nadds, reread, skipped, waitVars, envVars>>

\* lines 30-32
AddStep(key, value, overwrite) ==
    /\ opt_pc \in {"new", "ready"}
    /\ nadds < MaxAdds
    /\ nadds' = nadds + 1
    /\ opts' = AddOption(opts, key, value, overwrite)
    /\ opt_pc' = "ready"
    /\ eff' = IF overwrite \/ ~\E p \in eff : p[1] = key
              THEN {p \in eff : p[1] # key} \cup {<<key, value>>}
              ELSE eff
    /\ skipped' = (skipped \/ (~overwrite /\ \E p \in eff : p[1] = key))
    /\ UNCHANGED <<opt_env, opt_err, tokens, loaded, reread, waitVars, envVars>>

\* lines 52-54, then lines 34-50 on a second new object
RoundTripStep ==
    /\ opt_pc \in {"new", "ready"}
    /\ reread' = LoadOptions(<<>>, (OptKey :> Options(opts)), OptKey)
    /\ opt_pc' = "done"
    /\ UNCHANGED <<opt_env, opts, opt_err, tokens, eff, loaded, skipped, nadds, waitVars,
                   envVars>>

(***************************************************************************)
(* prepare_environment and configure_sanitizers.  An environment is a      *)
(* function from the names it holds to their values.                       *)
(***************************************************************************)
Put(e, k, v) == [x \in DOMAIN e \cup {k} |-> IF x = k THEN v ELSE e[x]]
Del(e, k) == [x \in DOMAIN e \ {k} |-> e[x]]

\* lines 279-289: the variables set unconditionally
FixedToggles == <<<<"G_SLICE", <<"a", "l", "w", "a", "y", "s", "-", "m", "a", "l", "l", "o", "c">>>>,
                 <<"MOZ_CC_RUN_DURING_SHUTDOWN", <<"1">>>>,
                 <<"MOZ_CRASHREPORTER", <<"1">>>>,
                 <<"MOZ_CRASHREPORTER_NO_REPORT", <<"1">>>>,
                 <<"MOZ_DISABLE_CONTENT_SANDBOX", <<"1">>>>,
                 <<"MOZ_DISABLE_GMP_SANDBOX", <<"1">>>>,
                 <<"MOZ_DISABLE_GPU_SANDBOX", <<"1">>>>,
                 <<"MOZ_DISABLE_NPAPI_SANDBOX", <<"1">>>>,
                 <<"MOZ_GDB_SLEEP", <<"0">>>>,
                 <<"XRE_NO_WINDOWS_CRASH_DIALOG", <<"1">>>>,
                 <<"XPCOM_DEBUG_BREAK", <<"w", "a", "r", "n">>>>>>
\* lines 292-296: the variables set only when absent
DefaultToggles == <<<<"MOZ_SKIA_DISABLE_ASSERTS", <<"1">>>>, <<"RUST_BACKTRACE", <<"f", "u", "l", "l">>>>>>

RECURSIVE PutAll(_, _, _)
PutAll(e, items, force) ==
    IF items = <<>> THEN e
    ELSE LET k == Head(items)[1]
             v == Head(items)[2]
         IN PutAll(IF force \/ k \notin DOMAIN e THEN Put(e, k, v) ELSE e, Tail(items), force)
\* lines 279-296
SetToggles(e) == PutAll(PutAll(e, FixedToggles, TRUE), DefaultToggles, FALSE)

\* lines 107 and 124: "'%s'" % log_path
Quote(s) == <<"'">> \o s \o <<"'">>

\* lines 98-110: the add calls on the AddressSanitizer options, (name, value, overwrite)
AsanAdds(log) ==
    << <<AbortOnError, StrTrue, FALSE>>,
       <<AllocatorMayReturnNull, StrTrue, FALSE>>,
       <<CheckInitializationOrder, StrTrue, FALSE>>,
       <<DetectLeaks, StrFalse, FALSE>>,
       <<DisableCoredump, StrTrue, FALSE>>,
       <<LogPath, Quote(log), TRUE>>,
       <<SleepBeforeDying, <<"0">>, FALSE>>,
       <<StrictInitOrder, StrTrue, FALSE>>,
       <<Symbolize, StrTrue, FALSE>> >>
\* lines 117-118
LsanAdds(log) ==
    << <<MaxLeaks, <<"1">>, FALSE>>,
       <<PrintSuppressions, StrFalse, FALSE>> >>
\* faulty variant: the UBSAN log_path is added without overwrite
UbsanAddsNoForce(log) ==
    << <<LogPath, Quote(log), FALSE>>,
       <<PrintStacktrace, <<"1">>, FALSE>> >>
\* lines 124-125
UbsanAdds(log) ==
    << <<LogPath, Quote(log), TRUE>>,
       <<PrintStacktrace, <<"1">>, FALSE>> >>

RECURSIVE ApplyAdds(_, _)
ApplyAdds(d, adds) ==
    IF adds = <<>> THEN d
    ELSE ApplyAdds(AddOption(d, Head(adds)[1], Head(adds)[2], Head(adds)[3]), Tail(adds))

\* one sanitizer of configure_sanitizers: a new SanitizerConfig, load_options,
\* the add calls, and env[key] = config.options
Configure(e, key, adds) ==
    LET r == LoadOptions(<<>>, e, key)
    IN IF r.err # "none" THEN [err |-> r.err, env |-> e]
       ELSE [err |-> "none", env |-> Put(e, key, Options(ApplyAdds(r.opts, adds)))]

TargetDir == <<"/", "t">>
\* line 131: os.path.join(target_dir, "llvm-symbolizer")
SymbolizerBin == TargetDir \o <<"/">> \o <<"l", "l", "v", "m", "-", "s", "y", "m", "b", "o", "l", "i", "z", "e", "r">>
\* lines 128-137: only the first branch changes env, the others log
ResolveSymbolizer(e, sym) ==
    IF "ASAN_SYMBOLIZER_PATH" \notin DOMAIN e /\ sym = "found"
    THEN Put(e, "ASAN_SYMBOLIZER_PATH", SymbolizerBin)
    ELSE e

\* faulty variant: a None override leaves the variable in place
ApplyItemNoDelete(e, name, item) ==
    IF ~item.none THEN Put(e, name, item.val) ELSE e
\* lines 303-307: one item of env_mod
ApplyItem(e, name, item) ==
    IF ~item.none THEN Put(e, name, item.val)
    ELSE IF name \in DOMAIN e THEN Del(e, name)
    ELSE e

RECURSIVE ApplyItems(_, _, _)
ApplyItems(e, items, todo) ==
    IF todo = {} THEN e
    ELSE LET n == CHOOSE x \in todo : TRUE
         IN ApplyItems(ApplyItem(e, n, items[n]), items, todo \ {n})
\* lines 300-307
ApplyEnvMod(e, mod) ==
    IF mod.given THEN ApplyItems(e, mod.items, DOMAIN mod.items) ELSE e

\* line 276: dict(os.environ) is a new dict, not os.environ itself
SharesEnviron == FALSE

\* a write to env, seen through os.environ when the two are one object
WriteEnv(e) ==
    /\ env' = e
    /\ os_environ' = IF SharesEnviron THEN e ELSE os_environ

envFrame == <<env_mod, sanitizer_log, symbolizer, environ0, waitVars, optVars>>

\* line 276
CopyEnviron ==
    /\ env_pc = "copy"
    /\ WriteEnv(os_environ)
    /\ env_pc' = "toggles"
    /\ UNCHANGED <<env_err, pre_env, envFrame>>

\* lines 279-296
ToggleStep ==
    /\ env_pc = "toggles"
    /\ WriteEnv(SetToggles(env))
    /\ env_pc' = "asan"
    /\ UNCHANGED <<env_err, pre_env, envFrame>>

ConfigureStep(at, key, adds, next) ==
    /\ env_pc = at
    /\ LET r == Configure(env, key, adds)
       IN /\ WriteEnv(r.env)
          /\ env_err' = r.err
          /\ env_pc' = IF r.err = "none" THEN next ELSE "failed"
    /\ UNCHANGED <<pre_env, envFrame>>

\* lines 96-111
ConfigureAsan == ConfigureStep("asan", "ASAN_OPTIONS", AsanAdds(sanitizer_log), "lsan")
\* lines 115-119
ConfigureLsan == ConfigureStep("lsan", "LSAN_OPTIONS", LsanAdds(sanitizer_log), "ubsan")
\* lines 122-126
ConfigureUbsan == ConfigureStep("ubsan", "UBSAN_OPTIONS", UbsanAdds(sanitizer_log), "symbolizer")

\* lines 128-137
SymbolizerStep ==
    /\ env_pc = "symbolizer"
    /\ WriteEnv(ResolveSymbolizer(env, symbolizer))
    /\ pre_env' = ResolveSymbolizer(env, symbolizer)
    /\ env_pc' = "mod"
    /\ UNCHANGED <<env_err, envFrame>>

\* lines 300-309
EnvModStep ==
    /\ env_pc = "mod"
    /\ WriteEnv(ApplyEnvMod(env, env_mod))
    /\ env_pc' = "done"
    /\ UNCHANGED <<env_err, pre_env, envFrame>>

EnvStep == \/ CopyEnviron
           \/ ToggleStep
           \/ ConfigureAsan
           \/ ConfigureLsan
           \/ ConfigureUbsan
           \/ SymbolizerStep
           \/ EnvModStep

(***************************************************************************)
(* The inputs of the model.                                                *)
(***************************************************************************)
TimeArgs == -1 .. MaxTimeout
\* wait_files: no path, a path that does not exist, a link beside it
WaitInputs == {{}, {"nx"}, {"la", "nx"}}

\* the strings load_options is given when only the tokenizer is looked at
Alphabet == {"a", "=", ":", "/", "\\", "|", " "}
Strs(n) == UNION {[1 .. k -> Alphabet] : k \in 0 .. n}
\* "suppressions=C:\path\to\file:other=1"
ExampleRaw == <<"s", "u", "p", "p", "r", "e", "s", "s", "i", "o", "n", "s", "=", "C", ":", "\\", "p", "a", "t", "h", "\\", "t", "o", "\\", "f", "i", "l", "e", ":", "o", "t", "h", "e", "r", "=", "1">>

\* the option strings a SanitizerConfig loads before add calls are made
RawSamples == {<<"x", "=", "1">>,
               <<"x", "=", "1", ":", "x", "=", "2">>,
               <<"x", ":", "d", "e", "t", "e", "c", "t", "_", "l", "e", "a", "k", "s", "=", "1">>,
               <<"s", "u", "p", "p", "r", "e", "s", "s", "i", "o", "n", "s", "=", "g">>,
               <<"s", "u", "p", "p", "r", "e", "s", "s", "i", "o", "n", "s", "=", "n">>,
               <<"x", " ", "1">>}
\* the names and values add is called with
AddNames == {<<"x">>, <<"/", "y">>, DetectLeaks, Suppressions}
AddValues == {<<"1">>, <<"2">>, <<>>, <<"a", ":", "b">>, <<"C", ":", "\\", "d">>, <<"a", "=", "b">>, <<"a", " ", "b">>, <<"/", "f">>}

\* os.environ: the sanitizer variables the user may have set, and the rest
\* either unset or set by the user
AsanSamples == {<<"l", "o", "g", "_", "p", "a", "t", "h", "=", "x">>,
                <<"d", "e", "t", "e", "c", "t", "_", "l", "e", "a", "k", "s", "=", "1", ":", "l", "o", "g", "_", "p", "a", "t", "h", "=", "x">>,
                <<"a", " ", "b">>,
                <<"s", "u", "p", "p", "r", "e", "s", "s", "i", "o", "n", "s", "=", "n">>}
UbsanSamples == {<<"l", "o", "g", "_", "p", "a", "t", "h", "=", "x", ":", "p", "r", "i", "n", "t", "_", "s", "t", "a", "c", "k", "t", "r", "a", "c", "e", "=", "0">>}
BaseEnviron == ("HOME" :> <<"/", "h">>)
UserEnviron ==
    [x \in {"HOME", "G_SLICE", "MOZ_SKIA_DISABLE_ASSERTS", "RUST_BACKTRACE", "LSAN_OPTIONS",
            "ASAN_SYMBOLIZER_PATH"} |->
        CASE x = "HOME" -> <<"/", "h">>
          [] x = "LSAN_OPTIONS" -> <<"m", "a", "x", "_", "l", "e", "a", "k", "s", "=", "5">>
          [] x = "ASAN_SYMBOLIZER_PATH" -> <<"/", "s">>
          [] OTHER -> <<"0">>]
Environs ==
    {LET withA == IF a = <<>> THEN b ELSE Put(b, "ASAN_OPTIONS", a)
     IN IF u = <<>> THEN withA ELSE Put(withA, "UBSAN_OPTIONS", u) :
        b \in {BaseEnviron, UserEnviron}, a \in AsanSamples \cup {<<>>},
        u \in UbsanSamples \cup {<<>>}}
\* env_mod: None, or a dict giving some names None or a string
ModNames == {"ASAN_OPTIONS", "UBSAN_OPTIONS", "G_SLICE", "NEW"}
ModItems == {[none |-> TRUE, val |-> <<>>], [none |-> FALSE, val |-> <<"v">>]}
EnvMods ==
    {[given |-> FALSE, items |-> NoEnv]}
        \cup {[given |-> TRUE, items |-> m] : m \in UNION {[D -> ModItems] : D \in SUBSET ModNames}}
LogSamples == {<<"/", "l">>, <<"C", ":", "\\", "l">>}

(***************************************************************************)
(* Initial states: one part of the module is in use at a time, the others  *)
(* stay as they are.                                                       *)
(***************************************************************************)
WaitRest ==
    /\ pc = "start"
    /\ wait_end = 0
    /\ wait_files = {}
    /\ children = <<>>
    /\ idx = 1
    /\ open_files = {}
    /\ result = "none"
    /\ clock = 0
    /\ slept = FALSE
    /\ first_poll = "none"
    /\ head_lost = FALSE
    /\ pid_exists = (st[Top] # "gone")
    /\ readers = {}

ProcessTable ==
    /\ st \in [Procs -> ProcStates]
    /\ held \in [Procs -> SUBSET {"a", "b"}]
    /\ \A q \in Procs : /\ held[q] \subseteq Holdable(q)
                        /\ st[q] = "gone" => held[q] = {}
                        /\ st[q] \in StatesOf(q)
    /\ st["c1"] = "gone" => st["c2"] = "gone"
    /\ st[Top] = "gone" => st["c1"] = "gone"

WaitInit ==
    /\ timeout \in TimeArgs
    /\ poll_rate \in TimeArgs
    /\ recursive \in BOOLEAN
    /\ wait_in \in WaitInputs
    /\ ProcessTable
    /\ WaitRest

\* a process that holds the watched file "a" open and stays as it is
HoldInit ==
    /\ timeout \in 0 .. MaxTimeout
    /\ poll_rate \in 0 .. timeout
    /\ recursive \in BOOLEAN
    /\ wait_in \in {w \in WaitInputs : "la" \in w}
    /\ ProcessTable
    /\ st[Top] = "run"
    /\ "a" \in held[Top]
    /\ WaitRest

WaitIdle ==
    /\ timeout = 0
    /\ poll_rate = 0
    /\ recursive = FALSE
    /\ wait_in = {}
    /\ st = [q \in Procs |-> "gone"]
    /\ held = [q \in Procs |-> {}]
    /\ WaitRest

OptRest ==
    /\ opts = <<>>
    /\ opt_pc = "new"
    /\ opt_err = "none"
    /\ nadds = 0
    /\ reread = Ok(<<>>)
    /\ tokens = <<>>
    /\ eff = {}
    /\ loaded = FALSE
    /\ skipped = FALSE

OptInit ==
    /\ opt_env \in {NoEnv} \cup {(OptKey :> s) : s \in RawSamples}
    /\ OptRest

TokInit ==
    /\ opt_env \in {(OptKey :> s) : s \in Strs(MaxRaw) \cup {ExampleRaw}}
    /\ OptRest

OptIdle ==
    /\ opt_env = NoEnv
    /\ OptRest

EnvRest ==
    /\ env = NoEnv
    /\ env_pc = "copy"
    /\ env_err = "none"
    /\ pre_env = NoEnv
    /\ environ0 = os_environ

EnvInit ==
    /\ os_environ \in Environs
    /\ env_mod \in EnvMods
    /\ sanitizer_log \in LogSamples
    /\ symbolizer \in {"found", "missing", "windows"}
    /\ EnvRest

EnvIdle ==
    /\ os_environ = NoEnv
    /\ env_mod = [given |-> FALSE, items |-> NoEnv]
    /\ sanitizer_log = <<>>
    /\ symbolizer = "missing"
    /\ EnvRest

(***************************************************************************)
(* The specifications.                                                     *)
(***************************************************************************)
Init == WaitInit /\ OptIdle /\ EnvIdle

Next == WaitStep \/ OsStep

\* wait_on_files beside an arbitrary process tree
Spec == Init /\ [][Next]_vars

HoldOsStep == \/ \E q \in Kids :
                    \/ ProcExit(q)
                    \/ AccessDeny(q)
                    \/ AccessAllow(q)
                    \/ Spawn(q)
                    \/ FileOpen(q, "a")
                    \/ FileClose(q, "a")
              \/ FileOpen(Top, "b")
              \/ FileClose(Top, "b")

HoldNext == WaitStep \/ HoldOsStep

\* wait_on_files on a process that never releases the watched file: every step
\* of the call is eventually taken, and the clock does not stand still for ever
HoldSpecInit == HoldInit /\ OptIdle /\ EnvIdle

HoldSpec ==
    /\ HoldSpecInit
    /\ [][HoldNext]_vars
    /\ WF_vars(WaitStep)
    /\ SF_vars(DeadlineNextTick)

OptStep == \/ LoadStep
           \/ \E k \in AddNames, v \in AddValues, o \in BOOLEAN : AddStep(k, v, o)
           \/ RoundTripStep

\* a SanitizerConfig: load_options, add calls, the options string read back
OptSpecInit == WaitIdle /\ OptInit /\ EnvIdle

OptSpec == OptSpecInit /\ [][OptStep]_vars

\* load_options on every short string
TokSpecInit == WaitIdle /\ TokInit /\ EnvIdle

TokSpec == TokSpecInit /\ [][LoadStep]_vars

\* prepare_environment
EnvSpecInit == WaitIdle /\ OptIdle /\ EnvInit

EnvSpec == EnvSpecInit /\ [][EnvStep]_vars

(***************************************************************************)
(* wait_on_files: what it returns and when.                                *)
(***************************************************************************)
\* the most recent poll collected a watched file
PollHit == \E f \in open_files : RealPath(f) \in wait_files

\* C1: wait_on_files returns False only when the poll it just made found a
\* watched file open and the clock had reached start time + timeout; never
\* without a poll, never while the deadline is still ahead.
C1_FalseOnlyAtDeadline ==
    result = "False" =>
        /\ first_poll # "none"
        /\ PollHit
        /\ wait_end <= clock

\* C1 happens: a False return after at least one sleep
C1_Witness == result = "False" /\ slept /\ poll_rate > 0

\* C2 as claimed: on a running process that never releases a watched file,
\* with poll_rate <= timeout and a clock that advances, wait_on_files
\* eventually returns False, no later than one poll interval after the
\* deadline, and no sleep is started once the deadline has been reached.
C2_FalseWithinOnePollInterval ==
    /\ <>(result = "False")
    /\ [](result = "False" => clock <= wait_end + poll_rate)
    /\ [](pc = "sleep" => clock < wait_end)

\* C2, amended: it eventually returns False, no later than one poll interval
\* plus the time one poll takes (one tick of the clock here) after the
\* deadline, and every sleep follows a deadline check that read a time before
\* the deadline.
C2_FalseWithinPollIntervalAndPoll ==
    /\ <>(result = "False")
    /\ [](result = "False" => clock <= wait_end + poll_rate + 1)
    /\ [](pc = "sleep" => clock < wait_end)

\* C2 happens: a False return one whole poll interval after the deadline
C2_Witness ==
    /\ result = "False"
    /\ slept
    /\ poll_rate > 0
    /\ clock = wait_end + poll_rate

\* the cases of C3: no watched path exists, the pid names no process, or the
\* first poll found no watched file
C3_Case ==
    \/ \A x \in wait_in : ~Exists(x)
    \/ ~pid_exists
    \/ first_poll = "clean"

\* C3: with valid timing arguments, wait_on_files makes no sleep and returns
\* True when the normalized watch set is empty, when the pid does not exist,
\* or when the first poll finds none of the watched files.
C3_TrueWithoutSleep ==
    (ArgsValid(poll_rate, timeout) /\ C3_Case) =>
        /\ ~slept
        /\ pc = "done" => result = "True"

\* C3 happens: the first poll of a running process that holds another file
C3_Witness ==
    /\ result = "True"
    /\ first_poll = "clean"
    /\ st[Top] = "run"
    /\ "b" \in held[Top]

\* C4 as claimed: whenever the top-level process has exited or is inaccessible
\* by the time the call returns, the call returned True.
C4_AlwaysTrueOnceLost ==
    (pc = "done" /\ ArgsValid(poll_rate, timeout) /\ st[Top] # "run") => result = "True"

\* C4, amended: with valid arguments the call returns True or False and never
\* raises AccessDenied or NoSuchProcess; it returns True when the creation of
\* the process handle or the is_running() test of the loop finds the process
\* gone or inaccessible; a process lost after a poll that found a watched file
\* does not stop the deadline check that follows from returning False.
C4_LostAtLoopTestIsTrue ==
    /\ (pc = "done" /\ ArgsValid(poll_rate, timeout)) => result \in {"True", "False"}
    /\ head_lost => result = "True"
    /\ (result = "False" /\ st[Top] # "run") => (PollHit /\ wait_end <= clock)

\* C4 happens: the process is lost during the wait, after a sleep
C4_Witness == head_lost /\ slept /\ result = "True" /\ pid_exists

\* C10: wait_on_files returns True only if the watch set is empty, or the
\* top-level process is not running or inaccessible, or the most recent poll
\* found no watched file; a poll reads the top-level process and, only when
\* recursive, its descendants, and a target whose enumeration failed
\* contributes no file.
C10_TrueOnlyIf ==
    /\ result = "True" =>
          \/ wait_files = {}
          \/ st[Top] # "run"
          \/ (first_poll # "none" /\ ~PollHit)
    /\ ~recursive => (children = <<>> /\ readers \subseteq {Top})
    /\ readers \subseteq {Top} \cup {children[i] : i \in DOMAIN children}
    /\ open_files \subseteq UNION {Holdable(q) : q \in readers}

\* C10 happens: a non-recursive wait returns True while a descendant holds the
\* watched file
C10_Witness ==
    /\ result = "True"
    /\ ~recursive
    /\ first_poll # "none"
    /\ st[Top] = "run"
    /\ st["c1"] = "run"
    /\ "a" \in held["c1"]
    /\ "a" \in wait_files

(***************************************************************************)
(* SanitizerConfig: tokenizer, add and the round trip.                     *)
(***************************************************************************)
\* the characters the claims name: the look-ahead set and the escape marker
ClaimPathChars == {"\\", "|", "/"}
EscapeMarker == "\\"

\* load_options split the string it was given
Tokenized ==
    /\ opt_pc \in {"ready", "failed"}
    /\ loaded
    /\ opt_err # "AssertionError"

EndsWith(s, c) == s # <<>> /\ s[Len(s)] = c
StartsIn(s, C) == s # <<>> /\ s[1] \in C

\* C6 as claimed: the tokens of load_options are the pieces of the string
\* between its separators, where a ":" is no separator when an escape marker
\* precedes it or one of \ | / follows it, and every other ":" is one; the
\* example string gives two options.
C6_EscapeOrLookahead ==
    Tokenized =>
        /\ Join(tokens, <<":">>) = opt_env[OptKey]
        /\ \A k \in DOMAIN tokens : \A j \in DOMAIN tokens[k] :
              tokens[k][j] = ":" =>
                  \/ (j > 1 /\ tokens[k][j - 1] = EscapeMarker)
                  \/ (j < Len(tokens[k]) /\ tokens[k][j + 1] \in ClaimPathChars)
        /\ \A k \in DOMAIN tokens : k < Len(tokens) =>
              /\ ~EndsWith(tokens[k], EscapeMarker)
              /\ ~StartsIn(tokens[k + 1], ClaimPathChars)
        /\ opt_env[OptKey] = ExampleRaw => Len(tokens) = 2

\* C6, amended: a ":" is no separator exactly when one of \ | / follows it;
\* what precedes it does not matter, and every other ":" is a separator; the
\* example string gives two options.
C6_LookaheadOnly ==
    Tokenized =>
        /\ Join(tokens, <<":">>) = opt_env[OptKey]
        /\ \A k \in DOMAIN tokens : \A j \in DOMAIN tokens[k] :
              tokens[k][j] = ":" =>
                  (j < Len(tokens[k]) /\ tokens[k][j + 1] \in ClaimPathChars)
        /\ \A k \in DOMAIN tokens : k < Len(tokens) =>
              ~StartsIn(tokens[k + 1], ClaimPathChars)
        /\ opt_env[OptKey] = ExampleRaw => Len(tokens) = 2

\* C6 happens: the example string was split
C6_Witness == Tokenized /\ opt_env[OptKey] = ExampleRaw /\ Len(tokens) = 2

\* the options string was read back by a new object
ReadBackEqual == reread.err = "none" /\ Mapping(reread.opts) = Mapping(opts)

\* C5 as claimed: for a SanitizerConfig populated only through add, loading
\* its options string into a new SanitizerConfig gives an equal mapping.
C5_RoundTripAny == (opt_pc = "done" /\ ~loaded) => ReadBackEqual

Has(s, c) == \E i \in DOMAIN s : s[i] = c
\* no "=", no space, and every ":" directly followed by one of \ | /
PlainValue(v) ==
    /\ ~Has(v, "=")
    /\ ~Has(v, " ")
    /\ \A i \in DOMAIN v : v[i] = ":" => (i < Len(v) /\ v[i + 1] \in ClaimPathChars)
\* no "=", no space, no ":", no leading \ | /, and not the suppressions option
PlainName(n) ==
    /\ ~Has(n, "=")
    /\ ~Has(n, " ")
    /\ ~Has(n, ":")
    /\ ~StartsIn(n, ClaimPathChars)
    /\ n # Suppressions
PlainOptions(d) == \A i \in DOMAIN d : PlainName(d[i][1]) /\ PlainValue(d[i][2])

\* C5, amended: the round trip gives an equal mapping when no name or value
\* holds "=" or a space, no name holds ":", begins with \ | / or is
\* "suppressions", and every ":" of a value is directly followed by \ | /.
C5_RoundTripPlain == (opt_pc = "done" /\ ~loaded /\ PlainOptions(opts)) => ReadBackEqual

\* C5 happens: two plain options, one value a path with a drive colon
C5_Witness ==
    /\ opt_pc = "done"
    /\ ~loaded
    /\ PlainOptions(opts)
    /\ Len(opts) = 2
    /\ \E i \in DOMAIN opts : Has(opts[i][2], ":")

\* C9: after load_options and any add calls, each name holds the value of the
\* most recent operation on it that was its load, an add made while it was
\* absent, or an add with overwrite; an add without overwrite on a present
\* name changes nothing, so a user's value survives every non-forced default.
C9_LastEffectiveValue == opt_pc \in {"ready", "done"} => Mapping(opts) = eff

\* C9 happens: the user's detect_leaks=1 met an add without overwrite
C9_Witness ==
    /\ opt_pc = "ready"
    /\ loaded
    /\ nadds = 1
    /\ skipped
    /\ HasKey(opts, DetectLeaks)
    /\ Lookup(opts, DetectLeaks) = <<"1">>

(***************************************************************************)
(* prepare_environment: the forced log path and the overrides.             *)
(***************************************************************************)
\* item is one of the ":"-joined options of the string s
IsItem(s, item) ==
    \E i \in 0 .. (Len(s) - Len(item)) :
        /\ SubSeq(s, i + 1, i + Len(item)) = item
        /\ (i = 0 \/ s[i] = ":")
        /\ (i + Len(item) = Len(s) \/ s[i + Len(item) + 1] = ":")
LogPathItem(v) == LogPath \o <<"=">> \o v
HoldsLogPath(e, key, v) == key \in DOMAIN e /\ IsItem(e[key], LogPathItem(v))
Overridden(key) == env_mod.given /\ key \in DOMAIN env_mod.items

\* C7 as claimed: in the map prepare_environment returns, for every input
\* environment and every env_mod, log_path inside ASAN_OPTIONS and inside
\* UBSAN_OPTIONS is the sanitizer_log prefix (bare or in its quotes).
C7_LogPathAlwaysForced ==
    env_pc = "done" =>
        \A key \in {"ASAN_OPTIONS", "UBSAN_OPTIONS"} :
            \/ HoldsLogPath(env, key, sanitizer_log)
            \/ HoldsLogPath(env, key, Quote(sanitizer_log))

\* C7, amended: when env_mod does not name the variable, ASAN_OPTIONS and
\* UBSAN_OPTIONS each hold log_path='<sanitizer_log>', the prefix in single
\* quotes, and no longer the log_path the input set; a variable env_mod names
\* is what env_mod makes it.
C7_LogPathForcedUnlessOverridden ==
    env_pc = "done" =>
        \A key \in {"ASAN_OPTIONS", "UBSAN_OPTIONS"} :
            IF Overridden(key)
            THEN IF env_mod.items[key].none
                 THEN key \notin DOMAIN env
                 ELSE key \in DOMAIN env /\ env[key] = env_mod.items[key].val
            ELSE /\ HoldsLogPath(env, key, Quote(sanitizer_log))
                 /\ ~HoldsLogPath(env, key, <<"x">>)

\* C7 happens: the input set log_path in both variables and no override
\* touches them
C7_Witness ==
    /\ env_pc = "done"
    /\ ~Overridden("ASAN_OPTIONS")
    /\ ~Overridden("UBSAN_OPTIONS")
    /\ HoldsLogPath(environ0, "ASAN_OPTIONS", <<"x">>)
    /\ HoldsLogPath(environ0, "UBSAN_OPTIONS", <<"x">>)

\* C8: the overrides are applied last and win: a name env_mod gives None is
\* not in the returned map, a name it gives a string has that string, every
\* other name is as the earlier steps left it, and os.environ is unchanged.
C8_OverridesWin ==
    /\ os_environ = environ0
    /\ env_pc = "done" =>
          /\ \A n \in DOMAIN env_mod.items :
                IF env_mod.items[n].none
                THEN n \notin DOMAIN env
                ELSE n \in DOMAIN env /\ env[n] = env_mod.items[n].val
          /\ \A n \in (DOMAIN env \cup DOMAIN pre_env) \ DOMAIN env_mod.items :
                /\ n \in DOMAIN env
                /\ n \in DOMAIN pre_env
                /\ env[n] = pre_env[n]

\* C8 happens: env_mod removes a fixed toggle and replaces a sanitizer variable
C8_Witness ==
    /\ env_pc = "done"
    /\ env_mod.given
    /\ {"G_SLICE", "ASAN_OPTIONS", "NEW"} \subseteq DOMAIN env_mod.items
    /\ env_mod.items["G_SLICE"].none
    /\ ~env_mod.items["ASAN_OPTIONS"].none
    /\ env_mod.items["NEW"].none
    /\ "G_SLICE" \in DOMAIN pre_env

=============================================================================
